---- MODULE Spec2Model ----
(***************************************************************************)
(* RemMe: a browser-local bookmark manager.                                *)
(*                                                                         *)
(*   src/src/db.js    the record store: a memoized IndexedDB connection    *)
(*                    and the getAll / add / update / delete wrappers      *)
(*   src/src/App.jsx  the normalizer (normalizeUrl, parseTags,             *)
(*                    normalizeImportedLinks) and the handlers that call   *)
(*                    the store and keep the in-memory collection `links`  *)
(*                                                                         *)
(* Strings are tuples of one-character strings, so that trimming, scheme   *)
(* detection, lowercasing and splitting are computed as the code computes  *)
(* them.  JSON values of an import file carry their JavaScript type.       *)
(*                                                                         *)
(* The page is single threaded.  Every store call awaits the shared open   *)
(* promise and then creates its transaction; IndexedDB starts transactions *)
(* with overlapping scope in creation order, so the calls in flight form a *)
(* FIFO queue (`calls`) whose head is the only one being served.  The      *)
(* promise reactions of a completion run as microtasks, before any other   *)
(* event, so a completion and the handler's continuation are one step.     *)
(***************************************************************************)
EXTENDS Integers, Sequences, FiniteSets, TLC

\* ------------------------------------------------------------------ bounds

\* store calls issued in one behaviour
MaxCalls == 3
\* largest value Date.now() returns
MaxTime == 1
\* db.js calls issued in one behaviour of the store on its own
MaxApiCalls == 3

\* ------------------------------------------------------------- constants

\* db.js:2
DB_VERSION == 1

\* ---------------------------------------------------------------- strings

Upper == <<"A","B","C","D","E","F","G","H","I","J","K","L","M",
           "N","O","P","Q","R","S","T","U","V","W","X","Y","Z">>
Lower == <<"a","b","c","d","e","f","g","h","i","j","k","l","m",
           "n","o","p","q","r","s","t","u","v","w","x","y","z">>

\* String.prototype.toLowerCase, one character
toLowerCaseChar(c) ==
  IF \E i \in 1..26 : Upper[i] = c
    THEN Lower[CHOOSE i \in 1..26 : Upper[i] = c]
    ELSE c

\* String.prototype.toLowerCase
toLowerCase(s) == [i \in 1..Len(s) |-> toLowerCaseChar(s[i])]

IsSpace(c) == c = " "

RECURSIVE TrimStart(_)
TrimStart(s) ==
  IF s = <<>> THEN <<>>
  ELSE IF IsSpace(Head(s)) THEN TrimStart(Tail(s)) ELSE s

RECURSIVE TrimEnd(_)
TrimEnd(s) ==
  IF s = <<>> THEN <<>>
  ELSE IF IsSpace(s[Len(s)]) THEN TrimEnd(SubSeq(s, 1, Len(s) - 1)) ELSE s

\* String.prototype.trim
trim(s) == TrimEnd(TrimStart(s))

\* String.prototype.split(','): the pieces between the commas, empty ones kept
RECURSIVE SplitFrom(_, _)
SplitFrom(s, piece) ==
  IF s = <<>> THEN <<piece>>
  ELSE IF Head(s) = "," THEN <<piece>> \o SplitFrom(Tail(s), <<>>)
  ELSE SplitFrom(Tail(s), Append(piece, Head(s)))

split(s) == SplitFrom(s, <<>>)

\* Array.prototype.filter(Boolean) on an array of strings: '' is falsy
RECURSIVE filterNonEmpty(_)
filterNonEmpty(ss) ==
  IF ss = <<>> THEN <<>>
  ELSE IF Head(ss) = <<>> THEN filterNonEmpty(Tail(ss))
  ELSE <<Head(ss)>> \o filterNonEmpty(Tail(ss))

Http == <<"h","t","t","p",":","/","/">>
Https == <<"h","t","t","p","s",":","/","/">>

StartsWithIgnoreCase(s, prefix) ==
  /\ Len(s) >= Len(prefix)
  /\ toLowerCase(SubSeq(s, 1, Len(prefix))) = prefix

\* /^https?:\/\//i.test(s)
HasScheme(s) == StartsWithIgnoreCase(s, Http) \/ StartsWithIgnoreCase(s, Https)

\* App.jsx normalizeUrl.  Every caller passes a string (a form field, or an
\* import element that passed the typeof filter), so trim() never throws and
\* the catch branch is not taken.
normalizeUrl(rawUrl) ==
  IF rawUrl = <<>> THEN <<>>
  ELSE LET trimmed == trim(rawUrl)
       IN IF HasScheme(trimmed) THEN trimmed ELSE Https \o trimmed

\* App.jsx parseTags
parseTags(input) ==
  LET pieces == split(input)
      trimmed == [i \in 1..Len(pieces) |-> trim(pieces[i])]
      kept == filterNonEmpty(trimmed)
  IN [i \in 1..Len(kept) |-> toLowerCase(kept[i])]

\* ------------------------------------------------------------ JSON values

\* A JavaScript value as far as the handlers tell values apart: its type and
\* its content.  An id string is named by a number (0 names the empty
\* string); a text is a tuple of characters.
Absent == [t |-> "absent", v |-> 0]
Str(s) == [t |-> "str", v |-> s]
Num(n) == [t |-> "num", v |-> n]
\* a number that is not finite (JSON.parse("1e999"))
NotFinite == [t |-> "inf", v |-> 0]

\* typeof x === 'string'
IsString(x) == x.t = "str"
\* Number.isFinite(x)
IsFinite(x) == x.t = "num"
\* truthiness of an id value: a non-empty string or a non-zero number
TruthyId(x) == (x.t = "str" /\ x.v # 0) \/ (x.t = "num" /\ x.v # 0)
\* truthiness of a text value: a non-empty string
TruthyText(x) == x.t = "str" /\ x.v # <<>>

\* --------------------------------------------------------- import files

\* an element of the imported list: obj is false for null (a falsy element);
\* tags is Absent or [t |-> "array", v |-> the strings]
Item(url, id, title, note, tags, createdAt, updatedAt) ==
  [obj |-> TRUE, url |-> url, id |-> id, title |-> title, note |-> note,
   tags |-> tags, createdAt |-> createdAt, updatedAt |-> updatedAt]

NullItem ==
  [obj |-> FALSE, url |-> Absent, id |-> Absent, title |-> Absent, note |-> Absent,
   tags |-> Absent, createdAt |-> Absent, updatedAt |-> Absent]

Tags(ss) == [t |-> "array", v |-> ss]

\* the result of JSON.parse on the file's text: "invalid" when it throws, a
\* bare array, or an object whose `links` is an array (hasList) or is not
Invalid == [t |-> "invalid", hasList |-> FALSE, list |-> <<>>]
Array(items) == [t |-> "array", hasList |-> TRUE, list |-> items]
Object(items) == [t |-> "object", hasList |-> TRUE, list |-> items]
ObjectWithoutLinks == [t |-> "object", hasList |-> FALSE, list |-> <<>>]

\* ----------------------------------------------------------- link records

Link(id, url, title, note, tags, createdAt, updatedAt) ==
  [id |-> id, url |-> url, title |-> title, note |-> note, tags |-> tags,
   createdAt |-> createdAt, updatedAt |-> updatedAt]

Ids(s) == {r.id : r \in s}
Range(seq) == {seq[i] : i \in 1..Len(seq)}

\* one step of a stable sort by descending createdAt: r goes behind every
\* element that does not compare after it
RECURSIVE InsertDesc(_, _)
InsertDesc(sorted, r) ==
  IF sorted = <<>> THEN <<r>>
  ELSE IF Head(sorted).createdAt >= r.createdAt
    THEN <<Head(sorted)>> \o InsertDesc(Tail(sorted), r)
    ELSE <<r>> \o sorted

\* [...data].sort((a, b) => b.createdAt - a.createdAt)   (App.jsx:89, 275)
RECURSIVE sortByCreatedDesc(_)
sortByCreatedDesc(seq) ==
  IF seq = <<>> THEN <<>>
  ELSE InsertDesc(sortByCreatedDesc(SubSeq(seq, 1, Len(seq) - 1)), seq[Len(seq)])

\* the record normalizeImportedLinks makes of one element (App.jsx:240-251);
\* t is Date.now(), fresh names crypto.randomUUID()
normalizeItem(item, t, fresh) ==
  LET normalizedUrl == normalizeUrl(item.url.v)
      tags == IF item.tags.t = "array"
                THEN filterNonEmpty([i \in 1..Len(item.tags.v) |->
                                       trim(toLowerCase(item.tags.v[i]))])
                ELSE <<>>
  IN Link(IF TruthyId(item.id) THEN item.id ELSE Str(fresh),
          normalizedUrl,
          trim(IF TruthyText(item.title) THEN item.title.v ELSE normalizedUrl),
          trim(IF TruthyText(item.note) THEN item.note.v ELSE <<>>),
          tags,
          IF IsFinite(item.createdAt) THEN item.createdAt.v ELSE t,
          IF IsFinite(item.updatedAt) THEN item.updatedAt.v ELSE t)

RECURSIVE NormalizeFrom(_, _, _)
NormalizeFrom(items, t, nid) ==
  IF items = <<>> THEN <<>>
  ELSE <<normalizeItem(Head(items), t, nid)>>
         \o NormalizeFrom(Tail(items), t,
                          IF TruthyId(Head(items).id) THEN nid ELSE nid + 1)

\* the elements that pass the filter of App.jsx:239
ValidItems(data) ==
  SelectSeq(IF data.hasList THEN data.list ELSE <<>>,
            LAMBDA item : item.obj /\ IsString(item.url))

\* normalizeImportedLinks (App.jsx:235-253); nid names the next random id
normalizeImportedLinks(data, t, nid) == NormalizeFrom(ValidItems(data), t, nid)

\* the random ids normalizeImportedLinks draws
FreshIds(data) ==
  Len(SelectSeq(ValidItems(data), LAMBDA item : ~TruthyId(item.id)))

\* ------------------------------------------------------- the object store

\* IndexedDB key order: numbers before strings, then by value
KeyBefore(a, b) ==
  \/ a.t = "num" /\ b.t = "str"
  \/ a.t = b.t /\ a.v < b.v

\* store.getAll(): every record, in key order   (db.js:53)
RECURSIVE storeGetAll(_)
storeGetAll(s) ==
  IF s = {} THEN <<>>
  ELSE LET first == CHOOSE r \in s : \A q \in s : q.id = r.id \/ KeyBefore(r.id, q.id)
       IN <<first>> \o storeGetAll(s \ {first})

\* fault: an add that does not check the key
storeAddUnchecked(s, r) == [ok |-> TRUE, s |-> s \cup {r}]

\* store.add(link): ConstraintError when the key is taken   (db.js:57)
storeAdd(s, r) ==
  IF r.id \in Ids(s) THEN [ok |-> FALSE, s |-> s]
  ELSE [ok |-> TRUE, s |-> s \cup {r}]

\* fault: an update that requires the record to exist
storePutExisting(s, r) ==
  IF r.id \in Ids(s) THEN [ok |-> TRUE, s |-> {q \in s : q.id # r.id} \cup {r}]
  ELSE [ok |-> FALSE, s |-> s]

\* store.put(link): insert, or replace the record at the key   (db.js:61)
storePut(s, r) ==
  [ok |-> TRUE, s |-> {q \in s : q.id # r.id} \cup {r}]

\* fault: a delete that clears the store
storeDeleteAll(s, r) == [ok |-> TRUE, s |-> {}]

\* fault: a delete that fails when no record has the id
storeDeleteStrict(s, r) ==
  IF r.id \in Ids(s) THEN [ok |-> TRUE, s |-> {q \in s : q.id # r.id}]
  ELSE [ok |-> FALSE, s |-> s]

\* store.delete(id): remove the record at the key, if any   (db.js:65)
storeDelete(s, r) ==
  [ok |-> TRUE, s |-> {q \in s : q.id # r.id}]

\* the request a call makes for one element of its argument
request(op, s, r) ==
  CASE op = "add" -> storeAdd(s, r)
    [] op = "put" -> storePut(s, r)
    [] op = "putMany" -> storePut(s, r)
    [] op = "delete" -> storeDelete(s, r)

\* what a transaction that aborts leaves behind: the store as it was
\* (withStore opens one transaction per call, db.js:39)
abortedStore(s, work) == s

\* fault: a batch whose successful writes survive its failure
putLinksAbortedPartial(s, work) == work

\* what a batch that aborts leaves behind: none of the batch
putLinksAborted(s, work) == s

\* the store after the head call's transaction has aborted
AfterAbort(c, s, work) ==
  IF c.op = "putMany" THEN putLinksAborted(s, work) ELSE abortedStore(s, work)

\* ------------------------------------------------------------------ state

VARIABLES
  \* db.js module state and the database behind it
  dbPromise,      \* 0 while null, else the index in `opens` of the memoized open
  opens,          \* the indexedDB.open requests made: "pending", "ok", "failed"
  dbVersion,      \* version of the database on disk, 0 before it exists
  created,        \* how often createObjectStore has run
  store,          \* the committed records of the object store
  storageOk,      \* whether the browser can open the database right now
  calls,          \* the store calls in flight, oldest first
  \* App.jsx component state
  mounted, links, loading, saving, error, importMessage,
  reading,        \* imports waiting for file.text(): the file and the links captured
  \* environment
  now,            \* last value returned by Date.now()
  nextId,         \* names the next crypto.randomUUID()
  \* history
  issued,         \* operations started so far
  last,           \* the store call that settled most recently
  prev            \* the call that settled before it, for db.js called directly

dbVars == <<dbPromise, opens, dbVersion, created, store, storageOk, calls>>
appVars == <<mounted, links, loading, saving, error, importMessage, reading>>
envVars == <<now, nextId>>
histVars == <<issued, last, prev>>
vars == <<dbVars, appVars, envVars, histVars>>

\* a store call in flight
\*   op    getAll, add, put, delete, putMany
\*   h     the caller: api (db.js called directly), load, handleAdd, saveEdit,
\*         removeLink, importLinks
\*   arg   the records of the call (for delete, the record whose id is deleted)
\*   snap  the `links` the caller closed over
\*   pc    open (awaiting the open promise), tx (transaction created),
\*         req (requests made, transaction not yet complete)
\*   prom  the open promise the call awaits; its connection once resolved
\*   n     requests that have succeeded;  work  the store as the transaction sees it
NewCall(op, h, arg, snap) ==
  [op |-> op, h |-> h, arg |-> arg, snap |-> snap,
   pc |-> "open", prom |-> 0, n |-> 0, work |-> {}]

NoCall ==
  [op |-> "none", h |-> "none", arg |-> <<>>, err |-> "none",
   before |-> {}, after |-> {}, res |-> <<>>, prom |-> 0, n |-> 0, snap |-> <<>>]

\* the record of a settled call: err is none, open (the open promise
\* rejected), request (a request of the call failed) or abort (the transaction
\* aborted for a reason of the store's own); before and after are the store
\* around the call, n the requests that had succeeded
Settled(c, err, before, after, res) ==
  [op |-> c.op, h |-> c.h, arg |-> c.arg, err |-> err,
   before |-> before, after |-> after, res |-> res, prom |-> c.prom, n |-> c.n,
   snap |-> c.snap]

\* ------------------------------------------------------------- db.js openDB

\* fault: an openDB that opens the database on every call
openDBUnmemoized(dp, os) == [p |-> Len(os) + 1, opens |-> Append(os, "pending")]

\* openDB (db.js:7-27): return the memoized promise, or start the open
openDB(dp, os) ==
  IF dp # 0 THEN [p |-> dp, opens |-> os]
  ELSE [p |-> Len(os) + 1, opens |-> Append(os, "pending")]

\* -------------------------------------------------- App.jsx continuations

AppState ==
  [links |-> links, loading |-> loading, saving |-> saving, error |-> error,
   importMessage |-> importMessage]

SetApp(a) ==
  /\ links' = a.links
  /\ loading' = a.loading
  /\ saving' = a.saving
  /\ error' = a.error
  /\ importMessage' = a.importMessage

\* an import message: its text and, for "Imported n links.", the n
Message(kind, n) == [kind |-> kind, n |-> n]

\* what the caller does once its call resolves with res
OnResolve(a, c, res) ==
  CASE c.h = "load" ->          \* App.jsx:87-93
         [a EXCEPT !.links = sortByCreatedDesc(res), !.loading = FALSE]
    [] c.h = "handleAdd" ->     \* App.jsx:156-162
         [a EXCEPT !.links = <<c.arg[1]>> \o a.links, !.saving = FALSE]
    [] c.h = "saveEdit" ->      \* App.jsx:198-199
         [a EXCEPT !.links = [i \in 1..Len(a.links) |->
                                IF a.links[i].id = c.arg[1].id THEN c.arg[1]
                                ELSE a.links[i]]]
    [] c.h = "removeLink" ->    \* App.jsx:208
         [a EXCEPT !.links = SelectSeq(a.links, LAMBDA item : item.id # c.arg[1].id)]
    [] c.h = "importLinks" ->   \* App.jsx:275-277
         [a EXCEPT !.links = sortByCreatedDesc(c.arg \o c.snap),
                   !.importMessage = Message("Imported", Len(c.arg))]
    [] OTHER -> a

\* fault: a caller that goes on after a rejection as after a success
OnRejectOptimistic(a, c) == OnResolve(a, c, <<>>)

\* what the caller does once its call rejects
OnReject(a, c) ==
  CASE c.h = "load" ->          \* App.jsx:92-93
         [a EXCEPT !.error = "Could not load your saved links.", !.loading = FALSE]
    [] c.h = "handleAdd" ->     \* App.jsx:159-162
         [a EXCEPT !.error = "Could not save that link.", !.saving = FALSE]
    [] c.h = "saveEdit" ->      \* App.jsx:200-201
         [a EXCEPT !.error = "Could not update that link."]
    [] c.h = "removeLink" ->    \* App.jsx:209-210
         [a EXCEPT !.error = "Could not delete that link."]
    [] c.h = "importLinks" ->   \* App.jsx:278-279
         [a EXCEPT !.importMessage = Message("Could not import that file.", 0)]
    [] OTHER -> a

RECURSIVE RejectAll(_, _)
RejectAll(a, cs) ==
  IF cs = <<>> THEN a ELSE RejectAll(OnReject(a, Head(cs)), Tail(cs))

\* ------------------------------------------------ issuing and serving calls

\* A caller invokes a db.js export: openDB runs at once; the call then waits
\* for the promise, has its transaction created (promise already resolved) or
\* rejects (promise already rejected).  `a` is the component state the
\* caller leaves behind before it awaits; dp and os are the module's
\* dbPromise and the opens made so far.
IssueFrom(dp, os, c, a) ==
  LET o == openDB(dp, os)
      st == o.opens[o.p]
      c1 == [c EXCEPT !.prom = o.p, !.pc = IF st = "ok" THEN "tx" ELSE "open"]
  IN /\ dbPromise' = o.p
     /\ opens' = o.opens
     /\ IF st = "failed"
          THEN /\ calls' = calls
               /\ SetApp(OnReject(a, c1))
               /\ prev' = IF c.h = "api" THEN last ELSE prev
               /\ last' = Settled(c1, "open", store, store, <<>>)
          ELSE /\ calls' = Append(calls, c1)
               /\ SetApp(a)
               /\ UNCHANGED <<last, prev>>
     /\ UNCHANGED <<dbVersion, created, store, storageOk>>

Issue(c, a) == IssueFrom(dbPromise, opens, c, a)

\* the head call settles: the store becomes `after`, the caller continues
Settle(c, err, after, res) ==
  /\ calls' = Tail(calls)
  /\ store' = after
  /\ SetApp(IF err = "none" THEN OnResolve(AppState, c, res) ELSE OnReject(AppState, c))
  /\ prev' = IF c.h = "api" THEN last ELSE prev
  /\ last' = Settled(c, err, store, after, res)
  /\ UNCHANGED <<dbPromise, opens, dbVersion, created, storageOk,
                 mounted, reading, envVars, issued>>

\* what the head call's transaction sees
View(c) == IF c.pc = "req" THEN c.work ELSE store

\* request.onsuccess of indexedDB.open (db.js:12-22): the upgrade creates the
\* object store when it is missing, the promise resolves, and every call
\* awaiting it creates its transaction
OpenSuccess(i) ==
  /\ i \in 1..Len(opens)
  /\ opens[i] = "pending"
  /\ storageOk
  /\ opens' = [opens EXCEPT ![i] = "ok"]
  /\ dbVersion' = DB_VERSION
  /\ created' = IF dbVersion < DB_VERSION /\ created = 0 THEN created + 1 ELSE created
  /\ calls' = [k \in 1..Len(calls) |->
                 IF calls[k].prom = i /\ calls[k].pc = "open"
                   THEN [calls[k] EXCEPT !.pc = "tx"] ELSE calls[k]]
  /\ UNCHANGED <<dbPromise, store, storageOk, appVars, envVars, histVars>>

\* request.onerror of indexedDB.open (db.js:23): the promise rejects and
\* every call awaiting it rejects, oldest first
OpenFail(i) ==
  /\ i \in 1..Len(opens)
  /\ opens[i] = "pending"
  /\ ~storageOk
  /\ opens' = [opens EXCEPT ![i] = "failed"]
  /\ LET waiting == SelectSeq(calls, LAMBDA c : c.prom = i /\ c.pc = "open")
         n == Len(waiting)
     IN /\ calls' = SelectSeq(calls, LAMBDA c : ~(c.prom = i /\ c.pc = "open"))
        /\ SetApp(RejectAll(AppState, waiting))
        /\ IF n = 0 THEN UNCHANGED <<last, prev>>
           ELSE /\ last' = Settled(waiting[n], "open", store, store, <<>>)
                /\ prev' = IF waiting[n].h # "api" THEN prev
                           ELSE IF n = 1 THEN last
                           ELSE Settled(waiting[n - 1], "open", store, store, <<>>)
  /\ UNCHANGED <<dbPromise, dbVersion, created, store, storageOk,
                 mounted, reading, envVars, issued>>

\* the browser's storage becomes available or unavailable (of no effect once
\* a connection is open: nothing opens the database again)
StorageChange ==
  /\ \A i \in 1..Len(opens) : opens[i] # "ok"
  /\ storageOk' = ~storageOk
  /\ UNCHANGED <<dbPromise, opens, dbVersion, created, store, calls,
                 appVars, envVars, histVars>>

\* fault: a wrapper whose promise resolves when the request succeeds
onRequestSuccessResolves(a, c) == OnResolve(a, c, <<>>)

\* what the caller sees of a request that succeeds: nothing.  withStore
\* keeps the callback's result and resolves in tx.oncomplete (db.js:41-43)
onRequestSuccess(a, c) == a

\* the next request of the head call's transaction (db.js:41): it succeeds
\* on the transaction's view of the store, or fails, which aborts the
\* transaction and rejects the call (db.js:44-45)
Write ==
  /\ calls # <<>>
  /\ LET c == Head(calls)
     IN /\ c.op # "getAll"
        /\ c.pc \in {"tx", "req"}
        /\ c.n < Len(c.arg)
        /\ LET r == request(c.op, View(c), c.arg[c.n + 1])
           IN IF r.ok
                THEN /\ calls' = <<[c EXCEPT !.pc = "req", !.n = c.n + 1, !.work = r.s]>>
                                   \o Tail(calls)
                     /\ SetApp(onRequestSuccess(AppState, c))
                     /\ UNCHANGED <<dbPromise, opens, dbVersion, created, store,
                                    storageOk, mounted, reading, envVars, histVars>>
                ELSE Settle(c, "request", AfterAbort(c, store, View(c)), <<>>)

\* tx.oncomplete (db.js:43): every request succeeded, the transaction commits
Commit ==
  /\ calls # <<>>
  /\ LET c == Head(calls)
     IN /\ c.op # "getAll"
        /\ c.pc \in {"tx", "req"}
        /\ c.n = Len(c.arg)
        /\ Settle(c, "none", View(c), <<>>)

\* tx.onabort (db.js:45): the transaction aborts for a reason of the store's
\* own (quota, disk) before it completes.  An abort before the first request
\* leaves the same store and rejects the same promise as one after it.
Abort ==
  /\ calls # <<>>
  /\ LET c == Head(calls)
     IN /\ c.op # "getAll"
        /\ c.pc = "req"
        /\ Settle(c, "abort", AfterAbort(c, store, View(c)), <<>>)

\* getAllLinks (db.js:49-54): the read resolves with every record
GetAllSuccess ==
  /\ calls # <<>>
  /\ LET c == Head(calls)
     IN /\ c.op = "getAll"
        /\ c.pc = "tx"
        /\ Settle(c, "none", store, storeGetAll(store))

\* getAllLinks (db.js:49-54): the read request fails
GetAllError ==
  /\ calls # <<>>
  /\ LET c == Head(calls)
     IN /\ c.op = "getAll"
        /\ c.pc = "tx"
        /\ Settle(c, "abort", store, <<>>)

\* ------------------------------------------------- db.js called directly

\* the records the store is exercised with: two ids, and for the first id
\* two records that differ in content
ApiLinks ==
  {Link(Str(1), Https \o <<"x">>, <<"a">>, <<>>, <<>>, 0, 0),
   Link(Str(1), Https \o <<"x">>, <<"b">>, <<>>, <<>>, 0, 1),
   Link(Str(2), Https \o <<"y">>, <<"a">>, <<>>, <<>>, 0, 0)}

\* the batches putMany is exercised with
ApiBatches ==
  {<<r, q>> : r \in ApiLinks, q \in {x \in ApiLinks : x.title = <<"a">>}}

ApiIssue(op, arg) ==
  /\ issued < MaxApiCalls
  /\ issued' = issued + 1
  /\ Issue(NewCall(op, "api", arg, <<>>), AppState)
  /\ UNCHANGED <<mounted, reading, envVars>>

\* getAllLinks()   (db.js:49-54)
getAllLinks == ApiIssue("getAll", <<>>)

\* addLink(link)   (db.js:56-58)
addLink(link) == ApiIssue("add", <<link>>)

\* updateLink(link)   (db.js:60-62)
updateLink(link) == ApiIssue("put", <<link>>)

\* deleteLink(id)   (db.js:64-66)
deleteLink(link) == ApiIssue("delete", <<link>>)

\* putLinks(links): one readwrite transaction that puts every record
putLinks(batch) == ApiIssue("putMany", batch)

InitDb ==
  /\ dbPromise = 0
  /\ opens = <<>>
  /\ dbVersion = 0
  /\ created = 0
  /\ store = {}
  /\ storageOk = TRUE
  /\ calls = <<>>

InitApp ==
  /\ mounted = FALSE
  /\ links = <<>>
  /\ loading = TRUE
  /\ saving = FALSE
  /\ error = ""
  /\ importMessage = Message("", 0)
  /\ reading = <<>>

Init ==
  /\ InitDb
  /\ InitApp
  /\ now = 0
  /\ nextId = 1
  /\ issued = 0
  /\ last = NoCall
  /\ prev = NoCall

Serve ==
  \/ \E i \in 1..Len(opens) : OpenSuccess(i)
  \/ \E i \in 1..Len(opens) : OpenFail(i)
  \/ Write
  \/ Commit
  \/ Abort
  \/ GetAllSuccess
  \/ GetAllError

NextStore ==
  \/ getAllLinks
  \/ \E link \in ApiLinks : addLink(link)
  \/ \E link \in ApiLinks : updateLink(link)
  \/ \E link \in {x \in ApiLinks : x.title = <<"a">>} : deleteLink(link)
  \/ \E batch \in ApiBatches : putLinks(batch)
  \/ StorageChange
  \/ Serve

\* the record store on its own: db.js called with arbitrary records
SpecStore == Init /\ [][NextStore]_vars

\* ------------------------------------------------------ App.jsx handlers

\* what the user types into the add form and the edit form
Form(url, title, note, tags) == [url |-> url, title |-> title, note |-> note, tags |-> tags]

Forms ==
  {Form(<<" ","x">>, <<" ","T"," ">>, <<" ","n">>, <<"A",","," ",",","a">>),
   Form(<<" "," ">>, <<>>, <<>>, <<>>),
   Form(<<>>, <<>>, <<>>, <<>>)}

\* the ids a file can carry besides those of current records: ids of
\* another installation, the empty string, a number
OtherIds == {Str(0), Num(7)}

ElementWithUrl(u) == Item(Str(u), Absent, Absent, Absent, Absent, Absent, Absent)
ElementWithId(u, id) == Item(Str(u), id, Absent, Absent, Absent, Absent, Absent)
\* an element as exportLinks writes it, created later than any Date.now()
ElementExported(u, id) ==
  Item(Str(u), id, Str(<<"T">>), Str(<<"n">>), Tags(<<<<"A">>, <<" ">>, <<"a">>>>),
       Num(MaxTime + 1), NotFinite)

\* the files the user imports, given the ids of the current records
ImportFiles(ids) ==
  {Invalid, Object(<<>>), ObjectWithoutLinks,
   Array(<<ElementWithUrl(<<"x">>), ElementWithUrl(<<"y">>)>>),
   Array(<<Item(Num(5), Absent, Absent, Absent, Absent, Absent, Absent), NullItem,
           ElementWithUrl(<<>>)>>),
   Array(<<ElementWithId(<<"v">>, Str(100)), ElementWithId(<<"w">>, Str(100))>>),
   Array(<<ElementWithId(<<"v">>, Str(100)), ElementWithId(<<"v">>, Str(101))>>)}
  \cup {Object(<<ElementExported(<<"H","T","T","P",":","/","/","z">>, id)>>) : id \in ids \cup OtherIds}

\* the values Date.now() can return next
Clock == {t \in {now, now + 1} : t <= MaxTime}

\* the page is loaded: db.js is evaluated, App mounts and its effect calls
\* getAllLinks (App.jsx:69-98).  A reload happens between operations.
PageLoad ==
  /\ calls = <<>>
  /\ reading = <<>>
  /\ issued < MaxCalls
  /\ issued' = issued + 1
  /\ mounted' = TRUE
  /\ IssueFrom(0, <<>>, NewCall("getAll", "load", <<>>, <<>>),
               [links |-> <<>>, loading |-> TRUE, saving |-> FALSE, error |-> "",
                importMessage |-> Message("", 0)])
  /\ UNCHANGED <<reading, envVars>>

\* handleAdd (App.jsx:132-164)
handleAdd(form) ==
  /\ mounted
  /\ ~saving
  /\ issued < MaxCalls
  /\ IF trim(form.url) = <<>>
       THEN /\ error' = "Please enter a URL."
            /\ UNCHANGED <<dbVars, mounted, links, loading, saving,
                           importMessage, reading, envVars, histVars>>
       ELSE \E t \in Clock :
              LET normalized == normalizeUrl(form.url)
                  newLink == Link(Str(nextId), normalized,
                                  IF trim(form.title) # <<>> THEN trim(form.title)
                                  ELSE normalized,
                                  trim(form.note), parseTags(form.tags), t, t)
              IN /\ now' = t
                 /\ nextId' = nextId + 1
                 /\ issued' = issued + 1
                 /\ Issue(NewCall("add", "handleAdd", <<newLink>>, <<>>),
                          [AppState EXCEPT !.error = "", !.saving = TRUE])
                 /\ UNCHANGED <<mounted, reading>>

\* fault: an edit that stamps the record as a new one
updatedAsNew(link, editForm, t) ==
  [link EXCEPT !.url = normalizeUrl(editForm.url), !.createdAt = t,
               !.updatedAt = t]

\* the record saveEdit writes (App.jsx:187-194): the link with the values of
\* the edit form and updatedAt: Date.now()
updated(link, editForm, t) ==
  [link EXCEPT !.url = normalizeUrl(editForm.url),
               !.title = IF trim(editForm.title) # <<>>
                           THEN trim(editForm.title)
                           ELSE normalizeUrl(editForm.url),
               !.note = trim(editForm.note),
               !.tags = parseTags(editForm.tags),
               !.updatedAt = t]

\* saveEdit (App.jsx:186-203) on a listed record, with what the edit form
\* holds.  editingId and editForm are not kept as state: startEdit opens the
\* form of any listed record and the user types any value before saving, so
\* they select the record and the values of the save and nothing else.
saveEdit(i, editForm) ==
  /\ mounted
  /\ i \in 1..Len(links)
  /\ issued < MaxCalls
  /\ \E t \in Clock :
       /\ now' = t
       /\ issued' = issued + 1
       /\ Issue(NewCall("put", "saveEdit", <<updated(links[i], editForm, t)>>, <<>>),
                AppState)
       /\ UNCHANGED <<mounted, reading, nextId>>

\* removeLink (App.jsx:205-212)
removeLink(i) ==
  /\ mounted
  /\ i \in 1..Len(links)
  /\ issued < MaxCalls
  /\ issued' = issued + 1
  /\ Issue(NewCall("delete", "removeLink", <<links[i]>>, <<>>), AppState)
  /\ UNCHANGED <<mounted, reading, envVars>>

\* fault: an import that puts every normalized record, known url or not
mergedUnfiltered(incoming, snap) == incoming

\* the records of an import whose url no captured link has (App.jsx:268-269)
merged(incoming, snap) ==
  LET existingByUrl == {snap[j].url : j \in 1..Len(snap)}
  IN SelectSeq(incoming, LAMBDA link : link.url \notin existingByUrl)

\* importLinks up to its first await (App.jsx:255-261): the handler closes
\* over the `links` of the render it belongs to and waits for file.text()
importLinks(data) ==
  /\ mounted
  /\ issued < MaxCalls
  /\ issued' = issued + 1
  /\ importMessage' = Message("", 0)
  /\ reading' = Append(reading, [data |-> data, snap |-> links])
  /\ UNCHANGED <<dbVars, mounted, links, loading, saving, error,
                 envVars, last, prev>>

\* importLinks once the file's text is there (App.jsx:261-280): parse,
\* normalize, drop the urls of the captured links, and put the rest
importLinksRead(k) ==
  /\ k \in 1..Len(reading)
  /\ reading' = SubSeq(reading, 1, k - 1) \o SubSeq(reading, k + 1, Len(reading))
  /\ LET data == reading[k].data
         snap == reading[k].snap
         Quiet(message) ==
           /\ importMessage' = message
           /\ UNCHANGED <<dbVars, mounted, links, loading, saving, error,
                          envVars, histVars>>
     IN IF data.t = "invalid" THEN Quiet(Message("Could not import that file.", 0))
        ELSE IF ValidItems(data) = <<>>
          THEN Quiet(Message("No valid links found in that file.", 0))
        ELSE \E t \in Clock :
          LET incoming == normalizeImportedLinks(data, t, nextId)
              batch == merged(incoming, snap)
          IN /\ now' = t
             /\ nextId' = nextId + FreshIds(data)
             /\ IF batch = <<>>
                  THEN /\ importMessage' = Message("All links already exist.", 0)
                       /\ UNCHANGED <<dbVars, links, loading, saving, error,
                                      histVars>>
                  ELSE /\ Issue(NewCall("putMany", "importLinks", batch, snap), AppState)
                       /\ UNCHANGED issued
             /\ UNCHANGED mounted

Next ==
  \/ PageLoad
  \/ \E form \in Forms : handleAdd(form)
  \/ \E i \in 1..Len(links) : \E editForm \in Forms : saveEdit(i, editForm)
  \/ \E i \in 1..Len(links) : removeLink(i)
  \/ \E data \in ImportFiles(Ids(store) \cup Ids(Range(links))) : importLinks(data)
  \/ \E k \in 1..Len(reading) : importLinksRead(k)
  \/ StorageChange
  \/ Serve

\* the application: the handlers of App.jsx over the record store
Spec == Init /\ [][Next]_vars

\* the store's steps when nothing fails for a reason of the environment:
\* every open succeeds, no read fails and no transaction aborts
ServeNoFailure ==
  \/ \E i \in 1..Len(opens) : OpenSuccess(i)
  \/ Write
  \/ Commit
  \/ GetAllSuccess

NextNoFailure ==
  \/ PageLoad
  \/ \E form \in Forms : handleAdd(form)
  \/ \E i \in 1..Len(links) : \E editForm \in Forms : saveEdit(i, editForm)
  \/ \E i \in 1..Len(links) : removeLink(i)
  \/ \E data \in ImportFiles(Ids(store) \cup Ids(Range(links))) : importLinks(data)
  \/ \E k \in 1..Len(reading) : importLinksRead(k)
  \/ ServeNoFailure

\* the application over a store that never fails
SpecNoFailure == Init /\ [][NextNoFailure]_vars

\* ---------------------------------------------------- claims on the store

Resolved(c) == c.op # "none" /\ c.err = "none"

\* the records of a batch that survive an upsert of the whole batch: for each
\* id the last record of the batch that carries it
LastOfBatch(batch) ==
  {batch[i] : i \in {k \in 1..Len(batch) :
                       \A j \in (k + 1)..Len(batch) : batch[j].id # batch[k].id}}

Upserted(s, batch) ==
  {q \in s : q.id \notin Ids(Range(batch))} \cup LastOfBatch(batch)

\* C3: putMany is atomic.  A settled putMany call leaves the store either as
\* the previous store upserted with the whole batch (it resolved) or exactly
\* as the previous store (it rejected), whatever number of its writes had
\* succeeded before the failure.
C3_PutManyAtomic ==
  last.op = "putMany" =>
    last.after = IF last.err = "none" THEN Upserted(last.before, last.arg)
                 ELSE last.before

\* a two-record batch whose first write had succeeded when the transaction
\* aborted, on a store the first write would have changed
C3_Witness ==
  /\ last.op = "putMany"
  /\ last.err = "abort"
  /\ Len(last.arg) = 2
  /\ last.n = 1
  /\ last.arg[1] \notin last.before
  /\ last.after = last.before

\* C4: id uniqueness.  No two records of the store share an id, and an add
\* whose id is already present rejects and leaves the store as it was.
C4_IdUnique ==
  /\ \A r \in store : \A q \in store : r.id = q.id => r = q
  /\ (last.op = "add" /\ last.arg[1].id \in Ids(last.before)) =>
       (last.err # "none" /\ last.after = last.before)

\* an add of a record whose id is held by a different record was rejected
\* by its request
C4_Witness ==
  /\ last.op = "add"
  /\ last.err = "request"
  /\ last.arg[1] \notin last.before
  /\ last.arg[1].id \in Ids(last.before)
  /\ store = last.before

\* C5: a getAll that follows a successful add returns the records stored
\* before the add, unchanged, plus exactly the added record; a getAll that
\* follows a successful delete returns no record with the deleted id and
\* every other record unchanged.
C5_AddDeleteThenGetAll ==
  (Resolved(last) /\ last.op = "getAll" /\ Resolved(prev)) =>
    /\ prev.op = "add" =>
         /\ Range(last.res) = prev.before \cup {prev.arg[1]}
         /\ Len(last.res) = Cardinality(prev.before) + 1
    /\ prev.op = "delete" =>
         /\ Range(last.res) = {q \in prev.before : q.id # prev.arg[1].id}
         /\ Len(last.res) = Cardinality({q \in prev.before : q.id # prev.arg[1].id})

\* a getAll has followed a successful add on a store that was not empty
C5_Witness ==
  /\ Resolved(last) /\ last.op = "getAll"
  /\ Resolved(prev) /\ prev.op = "add"
  /\ prev.before # {}
  /\ Len(last.res) = 2

\* C6: delete is idempotent.  The request of a delete never fails, the id
\* being present or not; a delete of an absent id that resolves leaves the
\* store unchanged, so a second delete of the same id resolves like the first
\* and leaves the store the first one left.
C6_DeleteIdempotent ==
  /\ last.op = "delete" => last.err # "request"
  /\ (Resolved(last) /\ last.op = "delete"
        /\ last.arg[1].id \notin Ids(last.before)) => last.after = last.before
  /\ (Resolved(last) /\ last.op = "delete" /\ Resolved(prev) /\ prev.op = "delete"
        /\ prev.arg[1].id = last.arg[1].id) => last.after = prev.after

\* the same id deleted twice in a row: the first delete removed a record,
\* the second found none and resolved
C6_Witness ==
  /\ Resolved(last) /\ last.op = "delete"
  /\ Resolved(prev) /\ prev.op = "delete"
  /\ prev.arg[1].id = last.arg[1].id
  /\ prev.arg[1].id \in Ids(prev.before)
  /\ last.arg[1].id \notin Ids(last.before)
  /\ last.before # {}

\* C7: update is an upsert.  The request of an update never fails, the id
\* being present or not; once it resolves the store holds exactly one record
\* with the id, the record given, and every record with another id unchanged.
C7_UpdateUpserts ==
  /\ last.op = "put" => last.err # "request"
  /\ (Resolved(last) /\ last.op = "put") =>
       /\ {q \in last.after : q.id = last.arg[1].id} = {last.arg[1]}
       /\ {q \in last.after : q.id # last.arg[1].id}
            = {q \in last.before : q.id # last.arg[1].id}

\* an update of an id that was absent resolved, beside another record
C7_Witness ==
  /\ Resolved(last) /\ last.op = "put"
  /\ last.arg[1].id \notin Ids(last.before)
  /\ last.before # {}
  /\ last.arg[1] \in store

\* C8: single shared connection.  indexedDB.open is called at most once and
\* the object store is created at most once, however many calls are issued
\* before the open has finished, and every call in flight and every settled
\* call uses the promise (the connection) of that one open.
C8_SingleConnection ==
  /\ Len(opens) <= 1
  /\ created <= 1
  /\ \A k \in 1..Len(calls) : calls[k].prom = dbPromise
  /\ last.op # "none" => last.prom = dbPromise
  /\ prev.op # "none" => prev.prom = dbPromise

\* three calls were issued while the open was pending
C8_Witness ==
  /\ opens = <<"pending">>
  /\ Len(calls) = 3
  /\ \A k \in 1..Len(calls) : calls[k].pc = "open"

\* C9 (as claimed): an operation issued after the open has failed makes a
\* fresh open attempt.
C9_FreshOpenAfterFailure ==
  [][(issued' = issued + 1 /\ dbPromise # 0 /\ opens[dbPromise] = "failed")
       => Len(opens') = Len(opens) + 1]_vars

\* ------------------------------------------------ claims on the handlers

\* C1 (as claimed): import never mutates existing records.  Every record that
\* was in the store before an import's write is in the store after it, with
\* every field as it was.
C1_ImportKeepsExisting ==
  last.h = "importLinks" => last.before \subseteq last.after

\* C2 (as claimed): import merges by url.  An import that resolves has added
\* to the store exactly its normalized records whose url no record of the
\* local collection has, and the count in its message is the number of
\* records it added.
C2_ImportMergeByUrl ==
  (last.h = "importLinks" /\ Resolved(last)) =>
    /\ \A r \in Range(last.arg) : r.url \notin {q.url : q \in Range(last.snap)}
    /\ last.after \ last.before = Range(last.arg)
    /\ importMessage.kind = "Imported" =>
         importMessage.n = Cardinality(last.after \ last.before)

\* C10 (as claimed): every record persisted by handleAdd, saveEdit or
\* importLinks has a non-empty url that starts with http:// or https://,
\* whatever the case of the scheme.
C10_UrlInvariant ==
  \A r \in store : r.url # <<>> /\ HasScheme(r.url)

\* C11 (as claimed): tags have set semantics.  The tags of every record in
\* the store, written there by handleAdd, saveEdit or importLinks, hold no
\* empty entry and no entry twice.
C11_TagsAreSets ==
  \A r \in store :
    \A i, j \in 1..Len(r.tags) :
      /\ r.tags[i] # <<>>
      /\ i # j => r.tags[i] # r.tags[j]

\* the pending reads of import files without the k-th
WithoutRead(k) ==
  SubSeq(reading, 1, k - 1) \o SubSeq(reading, k + 1, Len(reading))

\* C12: zero-insert import outcomes.  When an import has read its file: a
\* file that does not parse reports the parse failure; a file without a valid
\* element reports "no valid links"; a file whose valid elements all have a
\* url of the captured collection reports "all already exist".  The three
\* messages differ, and in the last two cases no store call is issued and
\* the store and the in-memory collection stay as they are.
C12_ZeroInsertImports ==
  [][\A k \in 1..Len(reading) :
       reading' = WithoutRead(k) =>
         LET data == reading[k].data
             snap == reading[k].snap
             valid == IF data.t = "invalid" THEN <<>> ELSE ValidItems(data)
             known == {snap[j].url : j \in 1..Len(snap)}
             unchanged == calls' = calls /\ store' = store /\ links' = links
                          /\ last' = last
         IN /\ data.t = "invalid" =>
                 importMessage'.kind = "Could not import that file."
            /\ (data.t # "invalid" /\ valid = <<>>) =>
                 /\ importMessage'.kind = "No valid links found in that file."
                 /\ unchanged
            /\ (valid # <<>>
                  /\ \A i \in 1..Len(valid) : normalizeUrl(valid[i].url.v) \in known) =>
                 /\ importMessage'.kind = "All links already exist."
                 /\ unchanged]_vars

\* an import found every url of its file in a non-empty collection
C12_Witness ==
  /\ importMessage.kind = "All links already exist."
  /\ links # <<>>
  /\ store # {}

\* exportLinks (App.jsx:218-233) followed by the JSON.parse of a later import:
\* the file holds every link of the collection, texts as strings, times as
\* numbers, the id as it is
exportLinks(ls) ==
  Object([i \in 1..Len(ls) |->
            Item(Str(ls[i].url), ls[i].id, Str(ls[i].title), Str(ls[i].note),
                 Tags(ls[i].tags), Num(ls[i].createdAt), Num(ls[i].updatedAt))])

\* the store after the puts of a batch, one after the other
RECURSIVE putAll(_, _)
putAll(s, batch) ==
  IF batch = <<>> THEN s
  ELSE putAll(request("putMany", s, Head(batch)).s, Tail(batch))

\* the store of an installation without records once importLinks has put
\* the file there (App.jsx:261-273)
importIntoEmpty(data, t, nid) ==
  putAll({}, merged(normalizeImportedLinks(data, t, nid), <<>>))

Fields(r) == <<r.url, r.title, r.note, r.tags>>

\* C13 (as claimed): export and import round-trip.  Whatever the collection
\* in memory, the file exportLinks writes of it, imported into an empty
\* store, leaves as many records as the collection has, and the same set of
\* (url, title, note, tags).
C13_RoundTrip ==
  LET imported == importIntoEmpty(exportLinks(links), now, nextId)
  IN /\ {Fields(r) : r \in imported} = {Fields(r) : r \in Range(links)}
     /\ Cardinality(imported) = Len(links)

\* the round trip of a collection in which no id occurs twice (it holds: the
\* round trip fails only on the collections an import with an id collision
\* leaves in memory)
C13_RoundTripUniqueIds ==
  (\A i, j \in 1..Len(links) : links[i].id = links[j].id => i = j)
     => C13_RoundTrip

\* the record u is the record of the collection it edits, at the time now'
KeepsIdentity(u) ==
  /\ \E i \in 1..Len(links) :
       u.id = links[i].id /\ u.createdAt = links[i].createdAt
  /\ u.updatedAt = now'

\* C14: edit keeps identity.  The record a saveEdit hands to the store, be
\* the call queued or rejected at once, has the id and the createdAt of a
\* record of the collection and the time of the edit as updatedAt; and the
\* record a resolved saveEdit leaves in the store is the record it handed
\* over.
C14_EditKeepsIdentity ==
  [][/\ (Len(calls') = Len(calls) + 1 /\ calls'[Len(calls')].h = "saveEdit")
          => KeepsIdentity(calls'[Len(calls')].arg[1])
     /\ (calls' = calls /\ issued' = issued + 1 /\ last' # last
           /\ last'.h = "saveEdit")
          => KeepsIdentity(last'.arg[1])
     /\ (Len(calls') < Len(calls) /\ last'.h = "saveEdit" /\ last'.err = "none")
          => last'.arg[1] \in store']_vars

\* a record edited later than it was created is in the store
C14_Witness ==
  /\ last.h = "saveEdit"
  /\ Resolved(last)
  /\ last.arg[1].updatedAt > last.arg[1].createdAt
  /\ last.arg[1] \in store

\* C15 (as claimed): import trusts what is valid.  For every file an import
\* is reading, normalizeImportedLinks yields one record for each element with
\* a string url, in order; the record has the element's id when that is a
\* non-empty string and a fresh id otherwise, and the element's createdAt and
\* updatedAt when they are finite numbers and the current time otherwise.
C15_ImportTrustIfValid ==
  \A k \in 1..Len(reading) :
    LET data == reading[k].data
        kept == SelectSeq(data.list, LAMBDA e : e.url.t = "str")
        out == normalizeImportedLinks(data, now, nextId)
    IN /\ Len(out) = Len(kept)
       /\ \A i \in 1..Len(kept) :
            /\ IF kept[i].id.t = "str" /\ kept[i].id.v # 0
                  THEN out[i].id = kept[i].id
                  ELSE out[i].id.t = "str" /\ out[i].id.v >= nextId
            /\ out[i].createdAt = IF kept[i].createdAt.t = "num"
                                    THEN kept[i].createdAt.v ELSE now
            /\ out[i].updatedAt = IF kept[i].updatedAt.t = "num"
                                    THEN kept[i].updatedAt.v ELSE now

\* every operation that was issued has completed
Quiescent == mounted /\ ~loading /\ calls = <<>> /\ reading = <<>>

DistinctIds(seq) ==
  \A i, j \in 1..Len(seq) : seq[i].id = seq[j].id => i = j

\* C16 (as claimed): the in-memory collection mirrors the store.  Once the
\* initial load and every add, edit, delete and import that was issued have
\* completed, in whatever order they overlapped, the records in memory are
\* the records of the store and no id occurs twice in memory.
C16_MemoryMirrorsStore ==
  Quiescent => (Range(links) = store /\ DistinctIds(links))

\* the same on the collections in which no id occurs twice, which leaves the
\* id collisions of an import aside (it fails as well: an import that
\* resolves sets the collection from the links it captured when it started)
C16_MirrorsStoreDistinctIds ==
  (Quiescent /\ DistinctIds(links)) => Range(links) = store

\* C17 (as claimed): the ordering invariant.  From the initial load on and
\* after any adds, edits, deletes and imports that succeed, the in-memory
\* collection is in descending order of createdAt.
C17_OrderedByCreatedAt ==
  (mounted /\ ~loading) =>
    \A i \in 1..(Len(links) - 1) : links[i].createdAt >= links[i + 1].createdAt

\* the handler of the call that has just failed shows its failure
Reported(c) ==
  CASE c.h = "handleAdd" -> error' = "Could not save that link."
    [] c.h = "saveEdit" -> error' = "Could not update that link."
    [] c.h = "removeLink" -> error' = "Could not delete that link."
    [] c.h = "importLinks" -> importMessage'.kind = "Could not import that file."

\* C18: a failure has no partial effect.  In the step in which a write of
\* handleAdd, saveEdit, removeLink or importLinks fails (the open failed, a
\* request failed or the transaction aborted), the handler shows the failure,
\* the store and the in-memory collection stay as they are, and nothing is
\* tried again: no call and no open is added.
C18_FailureHasNoEffect ==
  [][((Len(calls') < Len(calls) \/ last' # last)
        /\ last'.h \in {"handleAdd", "saveEdit", "removeLink", "importLinks"}
        /\ last'.err # "none") =>
       /\ Reported(last')
       /\ store' = store
       /\ links' = links
       /\ last'.before = store /\ last'.after = store
       /\ \A k \in 1..Len(calls') : \E j \in 1..Len(calls) : calls'[k] = calls[j]
       /\ Len(opens') = Len(opens)]_vars

\* the transaction of an edit aborted after its put had succeeded: the store
\* is as before and does not hold the edited record
C18_Witness ==
  /\ last.h = "saveEdit"
  /\ last.err = "abort"
  /\ last.n = 1
  /\ store = last.before
  /\ last.arg[1] \notin store
  /\ error = "Could not update that link."

\* C19 (as claimed): an import creates at most one record per url.  No two
\* records that a resolved import has added to the store have the same url.
C19_OneRecordPerUrl ==
  (last.h = "importLinks" /\ Resolved(last)) =>
    \A r, q \in last.after \ last.before : r.url = q.url => r = q

\* C20: commit before display.  The in-memory collection changes only when
\* the page is loaded or in the step in which a call resolves, and for add,
\* update and delete that step is the commit of the call's transaction: the
\* store then holds the added or updated record, or no record with the
\* deleted id.  No request that merely succeeded and no transaction that
\* fails changes the collection.
C20_CommitBeforeDisplay ==
  [][links' # links =>
       \/ Len(calls') = Len(calls) + 1 /\ links' = <<>> /\ loading'
       \/ /\ calls' = Tail(calls)
          /\ last'.err = "none"
          /\ last'.op = Head(calls).op /\ last'.arg = Head(calls).arg
          /\ Head(calls).op # "getAll" => Head(calls).n = Len(Head(calls).arg)
          /\ store' = last'.after
          /\ last'.h \in {"handleAdd", "saveEdit"} => last'.arg[1] \in store'
          /\ last'.h = "removeLink" => last'.arg[1].id \notin Ids(store')]_vars

\* the add request of a handleAdd succeeded and its transaction aborted
\* afterwards: the record is neither stored nor displayed
C20_Witness ==
  /\ last.h = "handleAdd"
  /\ last.err = "abort"
  /\ last.n = 1
  /\ last.arg[1] \notin store
  /\ last.arg[1] \notin Range(links)

====
